---- MODULE Spec2Model ----
(***************************************************************************)
(* Tier-transition logic of the Morocco public data platform:              *)
(*   Ingest  (URL -> bronze)      scripts/ingest_bronze_to_minio.py        *)
(*   Refine  (bronze -> silver)   scripts/bronze_to_silver.py              *)
(*   Load    (silver -> staging)  scripts/load_silver_to_postgres.py       *)
(* and the pure components they use: the Version Selector (mpdp/s3.py),    *)
(* the Encoding Normalizer (mpdp/encoding.py) and the Tabular Extractor    *)
(* (mpdp/parsers/tourism_guides.py).                                       *)
(*                                                                         *)
(* Text is a sequence of Unicode code points, bytes a sequence of 0..255,  *)
(* so that Python's comparisons, slicing and codecs are computed, not      *)
(* assumed.  An exception is a result record with ok = FALSE.              *)
(***************************************************************************)
EXTENDS Integers, Sequences, FiniteSets, TLC

VARIABLES
    now,      \* the wall clock, seconds since the Unix epoch
    bucket,   \* whether the lake bucket exists in the object store
    store,    \* the object store: key -> object body
    schemas,  \* the schemas of the relational store
    tables,   \* the relational store: <<schema, table>> -> sequence of rows
    ing,      \* the Ingest process: position and locals
    ref,      \* the Refine process: position and locals
    ld,       \* the Load process: position and locals
    hist,     \* history of finished runs (observation only)
    sel,      \* Version Selector harness: inputs and result
    dec,      \* Encoding Normalizer harness: input and result
    par       \* Tabular Extractor harness: input and result

vars == <<now, bucket, store, schemas, tables, ing, ref, ld, hist, sel, dec, par>>
pipeVars == <<now, bucket, store, schemas, tables, ing, ref, ld, hist>>

----------------------------------------------------------------------------
(* Python str / bytes primitives over sequences of code points.            *)

Empty == << >>

\* s[i:j] with 0-based half-open Python indices, clipped to the string.
Slice(s, i, j) ==
    LET lo == IF i < 0 THEN 0 ELSE i
        hi == IF j > Len(s) THEN Len(s) ELSE j
    IN  IF hi <= lo THEN Empty ELSE SubSeq(s, lo + 1, hi)

\* s.startswith(p)
StartsWith(s, p) == Len(p) <= Len(s) /\ SubSeq(s, 1, Len(p)) = p

\* s.endswith(p)
EndsWith(s, p) == Len(p) <= Len(s) /\ SubSeq(s, Len(s) - Len(p) + 1, Len(s)) = p

\* sub in s
Contains(s, sub) ==
    \E i \in 0..(Len(s) - Len(sub)) : SubSeq(s, i + 1, i + Len(sub)) = sub

\* a < b for Python strings: the first differing code point decides, a proper
\* prefix is smaller.
LexLess(a, b) ==
    \E i \in 1..(Len(b)) :
        /\ i <= Len(a) + 1
        /\ \A j \in 1..(i - 1) : a[j] = b[j]
        /\ (i = Len(a) + 1 \/ a[i] < b[i])

\* The last element: the greatest only when seq is in ascending order.
PyLast(seq) == seq[Len(seq)]

\* max(seq) as Python computes it: scan left to right, replace the running
\* maximum only by a strictly greater element.
RECURSIVE PyMaxFrom(_, _, _)
PyMaxFrom(seq, i, best) ==
    IF i > Len(seq) THEN best
    ELSE PyMaxFrom(seq, i + 1, IF LexLess(best, seq[i]) THEN seq[i] ELSE best)

PyMax(seq) == PyMaxFrom(seq, 2, seq[1])

\* ch.lower() for one code point (ASCII range; the keys of the model are ASCII)
LowerCh(c) == IF c >= 65 /\ c <= 90 THEN c + 32 ELSE c

\* s.lower()
Lower(s) == [i \in 1..Len(s) |-> LowerCh(s[i])]

----------------------------------------------------------------------------
(* Literals of the source.                                                 *)

SEP == <<95, 95>>                                            \* "__"
META_SUFFIX == <<46, 109, 101, 116, 97, 46, 116, 120, 116>>  \* ".meta.txt"
PARQUET_SUFFIX == <<46, 112, 97, 114, 113, 117, 101, 116>>   \* ".parquet"
\* "tourism_guides_directory"
TOURISM_ID ==
    <<116, 111, 117, 114, 105, 115, 109, 95, 103, 117, 105, 100, 101, 115, 95,
      100, 105, 114, 101, 99, 116, 111, 114, 121>>

----------------------------------------------------------------------------
(* Timestamp stamp: datetime.now(timezone.utc).strftime("%Y%m%dT%H%M%SZ")  *)

\* Decimal digits of n, zero-padded to width w (n < 10^w).
RECURSIVE Pad(_, _)
Pad(n, w) == IF w = 0 THEN Empty ELSE Pad(n \div 10, w - 1) \o <<48 + (n % 10)>>

\* Proleptic Gregorian date of a day count since 1970-01-01.
CivilFromDays(days) ==
    LET z   == days + 719468
        era == z \div 146097
        doe == z - era * 146097
        yoe == (doe - (doe \div 1460) + (doe \div 36524) - (doe \div 146096)) \div 365
        doy == doe - (365 * yoe + (yoe \div 4) - (yoe \div 100))
        mp  == (5 * doy + 2) \div 153
        d   == doy - ((153 * mp + 2) \div 5) + 1
        m   == IF mp < 10 THEN mp + 3 ELSE mp - 9
        y   == yoe + era * 400 + (IF m <= 2 THEN 1 ELSE 0)
    IN  [year |-> y, month |-> m, day |-> d]

\* The stamp of clock value t: YYYYMMDDTHHMMSSZ, second precision.
utc_timestamp(t) ==
    LET date == CivilFromDays(t \div 86400)
        sod  == t % 86400
    IN  Pad(date.year, 4) \o Pad(date.month, 2) \o Pad(date.day, 2) \o <<84>>
        \o Pad(sod \div 3600, 2) \o Pad((sod % 3600) \div 60, 2) \o Pad(sod % 60, 2)
        \o <<90>>

----------------------------------------------------------------------------
(* Version Selector.                                                       *)

\* A returned value, and a raised exception with its message.
Ok(v) == [ok |-> TRUE, value |-> v, error |-> ""]
Raise(e) == [ok |-> FALSE, value |-> Empty, error |-> e]

\* any(k.endswith(s) for s in exclude_suffixes)
AnyEndsWith(k, exclude_suffixes) ==
    \E i \in 1..Len(exclude_suffixes) : EndsWith(k, exclude_suffixes[i])

pick_latest_by_lex(keys, must_contain, exclude_suffixes) ==
    LET Keep(k) == Contains(k, must_contain) /\ ~AnyEndsWith(k, exclude_suffixes)
        candidates == SelectSeq(keys, Keep)
    IN  IF candidates = Empty
        THEN Raise("No matching objects found for latest pick.")
        ELSE Ok(PyMax(candidates))

\* The bronze selector made to return the first candidate of the listing.
pick_first_bronze(keys, dataset_id) ==
    LET Keep(k) == Contains(k, dataset_id \o SEP) /\ ~EndsWith(k, META_SUFFIX)
        candidates == SelectSeq(keys, Keep)
    IN  IF candidates = Empty
        THEN Raise("No bronze data files found (only meta or none).")
        ELSE Ok(candidates[1])

pick_latest_bronze(keys, dataset_id) ==
    LET Keep(k) == Contains(k, dataset_id \o SEP) /\ ~EndsWith(k, META_SUFFIX)
        candidates == SelectSeq(keys, Keep)
    IN  IF candidates = Empty
        THEN Raise("No bronze data files found (only meta or none).")
        ELSE Ok(PyMax(candidates))

pick_latest_silver(keys, dataset_id) ==
    LET Keep(k) == Contains(k, dataset_id \o SEP) /\ EndsWith(Lower(k), PARQUET_SUFFIX)
        candidates == SelectSeq(keys, Keep)
    IN  IF candidates = Empty
        THEN Raise("No Silver parquet files found for this dataset.")
        ELSE Ok(PyMax(candidates))

----------------------------------------------------------------------------
(* Encoding Normalizer: the codecs of bytes.decode, strict error handling. *)

\* UTF-16 code units from byte i on; big selects the byte order.  A lone
\* trailing byte, a lone surrogate or a truncated pair is a codec error.
RECURSIVE Utf16Units(_, _, _)
Utf16Units(b, i, big) ==
    IF i > Len(b) THEN Ok(Empty)
    ELSE IF i = Len(b) THEN Raise("truncated data")
    ELSE LET unit == IF big THEN b[i] * 256 + b[i + 1] ELSE b[i + 1] * 256 + b[i]
         IN  IF unit >= 55296 /\ unit <= 56319
             THEN IF i + 3 > Len(b) THEN Raise("unexpected end of data")
                  ELSE LET low == IF big THEN b[i + 2] * 256 + b[i + 3]
                                  ELSE b[i + 3] * 256 + b[i + 2]
                       IN  IF low >= 56320 /\ low <= 57343
                           THEN LET rest == Utf16Units(b, i + 4, big)
                                IN  IF rest.ok
                                    THEN Ok(<<65536 + (unit - 55296) * 1024 + (low - 56320)>>
                                            \o rest.value)
                                    ELSE rest
                           ELSE Raise("illegal UTF-16 surrogate")
             ELSE IF unit >= 56320 /\ unit <= 57343 THEN Raise("illegal encoding")
             ELSE LET rest == Utf16Units(b, i + 2, big)
                  IN  IF rest.ok THEN Ok(<<unit>> \o rest.value) ELSE rest

\* b.decode("utf-16"): a leading FF FE or FE FF selects the byte order and is
\* consumed; without one the byte order is the machine's (little-endian).
DecodeUtf16(b) ==
    IF Len(b) >= 2 /\ b[1] = 255 /\ b[2] = 254 THEN Utf16Units(b, 3, FALSE)
    ELSE IF Len(b) >= 2 /\ b[1] = 254 /\ b[2] = 255 THEN Utf16Units(b, 3, TRUE)
    ELSE Utf16Units(b, 1, FALSE)

\* b.decode("utf-16le"): no byte-order mark handling, FF FE decodes to U+FEFF.
DecodeUtf16le(b) == Utf16Units(b, 1, FALSE)

IsCont(b, i) == i <= Len(b) /\ b[i] >= 128 /\ b[i] <= 191

\* Strict UTF-8 from byte i on: shortest form only, no surrogates, at most
\* U+10FFFF.
RECURSIVE Utf8From(_, _)
Utf8From(b, i) ==
    IF i > Len(b) THEN Ok(Empty)
    ELSE LET c == b[i]
             n == IF c < 128 THEN 1
                  ELSE IF c >= 194 /\ c <= 223 THEN 2
                  ELSE IF c >= 224 /\ c <= 239 THEN 3
                  ELSE IF c >= 240 /\ c <= 244 THEN 4
                  ELSE 0
             lo2 == IF c = 224 THEN 160 ELSE IF c = 240 THEN 144 ELSE 128
             hi2 == IF c = 237 THEN 159 ELSE IF c = 244 THEN 143 ELSE 191
             wellFormed ==
                 /\ n > 0
                 /\ \A k \in 1..(n - 1) : IsCont(b, i + k)
                 /\ n >= 2 => (b[i + 1] >= lo2 /\ b[i + 1] <= hi2)
             cp == IF n = 1 THEN c
                   ELSE IF n = 2 THEN (c - 192) * 64 + (b[i + 1] - 128)
                   ELSE IF n = 3
                        THEN (c - 224) * 4096 + (b[i + 1] - 128) * 64 + (b[i + 2] - 128)
                   ELSE (c - 240) * 262144 + (b[i + 1] - 128) * 4096
                        + (b[i + 2] - 128) * 64 + (b[i + 3] - 128)
         IN  IF ~wellFormed THEN Raise("invalid utf-8")
             ELSE LET rest == Utf8From(b, i + n)
                  IN  IF rest.ok THEN Ok(<<cp>> \o rest.value) ELSE rest

\* b.decode("utf-8-sig"): a leading EF BB BF is dropped.
DecodeUtf8Sig(b) ==
    IF Len(b) >= 3 /\ b[1] = 239 /\ b[2] = 187 /\ b[3] = 191
    THEN Utf8From(b, 4)
    ELSE Utf8From(b, 1)

\* b.decode("latin1"): byte n is code point n; no byte is invalid.
DecodeLatin1(b) == Ok([i \in 1..Len(b) |-> b[i]])

\* The loop with UTF-8 tried first.
UTF8_FIRST == <<"utf-8-sig", "utf-16", "utf-16le", "latin1">>

\* The codec names of the loop, in its order.
ENCODINGS == <<"utf-16", "utf-16le", "utf-8-sig", "latin1">>

Decode(b, enc) ==
    CASE enc = "utf-16"    -> DecodeUtf16(b)
      [] enc = "utf-16le"  -> DecodeUtf16le(b)
      [] enc = "utf-8-sig" -> DecodeUtf8Sig(b)
      [] enc = "latin1"    -> DecodeLatin1(b)

\* for enc in encs[i:]: try: return b.decode(enc) / except Exception: pass;
\* after the loop: return b.decode("latin1", errors="replace")
RECURSIVE DecodeLoop(_, _, _)
DecodeLoop(b, encs, i) ==
    IF i > Len(encs) THEN DecodeLatin1(b)
    ELSE LET r == Decode(b, encs[i])
         IN  IF r.ok THEN r ELSE DecodeLoop(b, encs, i + 1)

decode_bytes_safely(b) == DecodeLoop(b, ENCODINGS, 1)

----------------------------------------------------------------------------
(* Tabular Extractor: Python's str methods and re.split, then parse.       *)

\* str.isspace() of one code point, which is also what \s matches in re.
IsSpace(c) ==
    \/ c \in {9, 10, 11, 12, 13, 28, 29, 30, 31, 32, 133, 160, 5760}
    \/ (c >= 8192 /\ c <= 8202)
    \/ c \in {8232, 8233, 8239, 8287, 12288}

\* The line boundaries of str.splitlines().
IsLineBreak(c) == c \in {10, 11, 12, 13, 28, 29, 30, 133, 8232, 8233}

\* s.strip()
RECURSIVE LStrip(_)
LStrip(s) == IF s # Empty /\ IsSpace(Head(s)) THEN LStrip(Tail(s)) ELSE s

RECURSIVE RStrip(_)
RStrip(s) ==
    IF s # Empty /\ IsSpace(s[Len(s)]) THEN RStrip(SubSeq(s, 1, Len(s) - 1)) ELSE s

Strip(s) == RStrip(LStrip(s))

\* The elements of s at the positions of the set keep, in order.
AtPositions(s, keep) ==
    LET Nth(k) == CHOOSE p \in keep : Cardinality({q \in keep : q <= p}) = k
    IN  [k \in 1..Cardinality(keep) |-> s[Nth(k)]]

\* s.replace(old, "") for an old that cannot overlap itself (one character,
\* or two different ones): every occurrence is removed, and the result is
\* not searched again.
Remove(s, old) ==
    LET n == Len(old)
        starts == {i \in 1..(Len(s) - n + 1) : SubSeq(s, i, i + n - 1) = old}
        gone == UNION {i..(i + n - 1) : i \in starts}
    IN  AtPositions(s, (1..Len(s)) \ gone)

BOM == <<65279>>          \* "﻿"
BOM_GLYPHS == <<255, 254>>  \* "ÿþ"

clean_bom(s) == Strip(Remove(Remove(s, BOM), BOM_GLYPHS))

\* The fragments of s around separators, each known by the position it ends
\* at (the set ends) and starting at first[that position]: one fragment before each separator and one after the last.
Fragments(s, ends, first) ==
    LET n == Cardinality(ends)
        Nth(k) == CHOOSE p \in ends : Cardinality({q \in ends : q <= p}) = k
        From(k) == IF k = 1 THEN 1 ELSE Nth(k - 1) + 1
        To(k) == IF k = n + 1 THEN Len(s) ELSE first[Nth(k)] - 1
    IN  [k \in 1..(n + 1) |-> SubSeq(s, From(k), To(k))]

\* s.split(sep) for a one-character sep: every separator ends a fragment,
\* empty fragments are kept.
Split(s, sep) ==
    LET ends == {i \in 1..Len(s) : s[i] = sep}
    IN  Fragments(s, ends, [i \in ends |-> i])

\* s.splitlines(): "\r\n" is one boundary, and a final boundary adds no empty
\* last line.
SplitLines(s) ==
    LET ends == {i \in 1..Len(s) :
                   /\ IsLineBreak(s[i])
                   /\ ~(s[i] = 13 /\ i < Len(s) /\ s[i + 1] = 10)}
        first == [i \in ends |-> IF s[i] = 10 /\ i > 1 /\ s[i - 1] = 13 THEN i - 1 ELSE i]
        all == Fragments(s, ends, first)
    IN  IF all[Len(all)] = Empty THEN SubSeq(all, 1, Len(all) - 1) ELSE all

\* The position where the whitespace run that ends at i starts.
RunStart(s, i) ==
    CHOOSE j \in 1..i :
        /\ \A k \in j..i : IsSpace(s[k])
        /\ (j = 1 \/ ~IsSpace(s[j - 1]))

\* re.split(r"\s{2,}", s): a separator is a maximal run of two or more
\* whitespace characters of any kind; a single one stays in its fragment.
ReSplit2Spaces(s) ==
    LET ends == {i \in 1..Len(s) :
                   /\ IsSpace(s[i])
                   /\ (i = Len(s) \/ ~IsSpace(s[i + 1]))
                   /\ i - RunStart(s, i) >= 1}
    IN  Fragments(s, ends, [i \in ends |-> RunStart(s, i)])

\* s.split(): fragments between whitespace runs, none empty.
RECURSIVE SplitWsOn(_, _)
SplitWsOn(s, cur) ==
    IF s = Empty THEN (IF cur = Empty THEN Empty ELSE <<cur>>)
    ELSE IF IsSpace(Head(s))
         THEN (IF cur = Empty THEN Empty ELSE <<cur>>) \o SplitWsOn(Tail(s), Empty)
    ELSE SplitWsOn(Tail(s), Append(cur, Head(s)))

SplitWs(s) == SplitWsOn(s, Empty)

\* " ".join(tokens)
RECURSIVE JoinSpace(_)
JoinSpace(tokens) ==
    IF tokens = Empty THEN Empty
    ELSE IF Len(tokens) = 1 THEN tokens[1]
    ELSE tokens[1] \o <<32>> \o JoinSpace(Tail(tokens))

\* [p.strip() for p in fragments if p.strip()]
StrippedNonEmpty(fragments) ==
    LET stripped == [i \in 1..Len(fragments) |-> Strip(fragments[i])]
        NonEmpty(p) == p # Empty
    IN  SelectSeq(stripped, NonEmpty)

\* The fragments of one data line when only the whitespace-run split is made.
LinePartsNoTab(ln) == StrippedNonEmpty(ReSplit2Spaces(ln))

\* The fragments of one data line: tab split first, the whitespace-run split
\* when the tab split gives fewer than 4.
LineParts(ln) ==
    LET byTab == StrippedNonEmpty(Split(ln, 9))
    IN  IF Len(byTab) < 4 THEN StrippedNonEmpty(ReSplit2Spaces(ln)) ELSE byTab

\* The row of a line with at least 4 fragments.
RowOf(parts) ==
    IF Len(parts) >= 5
    THEN <<parts[1], parts[2], parts[3], parts[4], parts[5]>>
    ELSE LET np == SplitWs(parts[1])
             nom == IF np # Empty THEN np[1] ELSE Empty
             prenom == IF Len(np) > 1 THEN JoinSpace(Tail(np)) ELSE Empty
         IN  <<nom, prenom, parts[2], parts[3], parts[4]>>

\* The loop over lines[1:]: a line with fewer than 4 fragments adds no row.
RECURSIVE RowsOf(_)
RowsOf(lines) ==
    IF lines = Empty THEN Empty
    ELSE LET parts == LineParts(clean_bom(Head(lines)))
         IN  (IF Len(parts) < 4 THEN Empty ELSE <<RowOf(parts)>>) \o RowsOf(Tail(lines))

\* The column names of the table.
EXPECTED_COLS ==
    << <<110, 111, 109>>, <<112, 114, 101, 110, 111, 109>>, <<118, 105, 108, 108, 101>>,
       <<99, 97, 116, 101, 103, 111, 114, 105, 101>>,
       <<108, 97, 110, 103, 117, 101, 95, 100, 101, 95, 116, 114, 97, 118, 97, 105, 108>> >>

\* pl.DataFrame(rows, schema=EXPECTED_COLS, orient="row"), every column cast
\* to text and stripped.  A table is its column names and its rows.
DataFrame(rows) ==
    [columns |-> EXPECTED_COLS,
     rows |-> [i \in 1..Len(rows) |-> [c \in 1..5 |-> Strip(rows[i][c])]]]

Height(df) == Len(df.rows)

parse(text) ==
    LET NonBlank(ln) == Strip(ln) # Empty
        lines == SelectSeq(SplitLines(text), NonBlank)
    IN  IF Len(lines) < 2 THEN Raise("Not enough lines to parse file.")
        ELSE Ok(DataFrame(RowsOf(Tail(lines))))

----------------------------------------------------------------------------
(* Columnar serialization of a table (write_parquet / read_parquet).       *)

NoParquet == [schema |-> Empty, nrows |-> 0, columns |-> Empty]

\* df.write_parquet: the file holds the schema and one value vector per column.
write_parquet(df) ==
    [schema  |-> df.columns,
     nrows   |-> Len(df.rows),
     columns |-> [c \in 1..Len(df.columns) |->
                    [i \in 1..Len(df.rows) |-> df.rows[i][c]]]]

\* pl.read_parquet: the rows are read back across the column vectors.
read_parquet(pq) ==
    [columns |-> pq.schema,
     rows    |-> [i \in 1..pq.nrows |->
                    [c \in 1..Len(pq.schema) |-> pq.columns[c][i]]]]

EmptyDF == [columns |-> EXPECTED_COLS, rows |-> Empty]

----------------------------------------------------------------------------
(* Configuration (configs/sources.yaml) and the documents the source URL   *)
(* can serve.                                                              *)

\* p.lstrip("/"), then a "/" appended unless p ends with one.
RECURSIVE LStripSlash(_)
LStripSlash(p) == IF p # Empty /\ Head(p) = 47 THEN LStripSlash(Tail(p)) ELSE p

normalize_prefix(p) ==
    LET q == LStripSlash(p) IN IF EndsWith(q, <<47>>) THEN q ELSE q \o <<47>>

\* The dataset of the configuration.  Its prefixes are written as a
\* configuration may write them; normalize_prefix gives "bronze/", "silver/".
Tourism ==
    [id |-> TOURISM_ID, format |-> <<88, 76, 83>>,                  \* "XLS"
     bronze_prefix |-> <<98, 114, 111, 110, 122, 101>>,             \* "bronze"
     silver_prefix |-> <<47, 115, 105, 108, 118, 101, 114, 47>>,    \* "/silver/"
     staging_schema |-> "staging", staging_table |-> "tourism_guides"]

Datasets == {Tourism}

get_dataset(dataset_id) == CHOOSE d \in Datasets : d.id = dataset_id

Target(d) == <<d.staging_schema, d.staging_table>>
Targets == {Target(d) : d \in Datasets}

\* A document: a header line and data lines, each a sequence of fields.
\* "h1".."h5" / "Dupont" "Marie" "Lyon" "Guide" "FR": the example of the spec.
Header5 == << <<104, 49>>, <<104, 50>>, <<104, 51>>, <<104, 52>>, <<104, 53>> >>
Dupont ==
    << <<68, 117, 112, 111, 110, 116>>, <<77, 97, 114, 105, 101>>,
       <<76, 121, 111, 110>>, <<71, 117, 105, 100, 101>>, <<70, 82>> >>
RowA == << <<97>>, <<98>>, <<99>>, <<100>>, <<101>> >>          \* a b c d e
RowF == << <<102>>, <<103>>, <<104>>, <<105>>, <<106>> >>       \* f g h i j
Junk == << <<120>>, <<121>> >>                                  \* x y

\* fields joined by sep
RECURSIVE Join(_, _)
Join(fields, sep) ==
    IF fields = Empty THEN Empty
    ELSE IF Len(fields) = 1 THEN fields[1]
    ELSE fields[1] \o sep \o Join(Tail(fields), sep)

\* The text of a document: tab-delimited lines; final tells whether the last
\* line ends with a newline too.
RECURSIVE RenderLines(_)
RenderLines(lines) ==
    IF lines = Empty THEN Empty
    ELSE Join(Head(lines), <<9>>) \o <<10>> \o RenderLines(Tail(lines))

Render(doc) ==
    LET t == RenderLines(<<doc.header>> \o doc.lines)
    IN  IF doc.final THEN t ELSE SubSeq(t, 1, Len(t) - 1)

\* The bytes of a text: UTF-8 (the documents are ASCII), or UTF-16
\* little-endian after a byte-order mark, as the source system exports.
RECURSIVE Utf16leBytes(_)
Utf16leBytes(t) ==
    IF t = Empty THEN Empty
    ELSE <<Head(t) % 256, Head(t) \div 256>> \o Utf16leBytes(Tail(t))

Encode(t, enc) == IF enc = "utf-16" THEN <<255, 254>> \o Utf16leBytes(t) ELSE t

\* What the source URL can serve.
Sources ==
    { [doc |-> [header |-> Header5, lines |-> <<Dupont>>, final |-> TRUE],
       enc |-> "utf-8"],
      [doc |-> [header |-> <<RowF[1]>>, lines |-> <<RowA>>, final |-> FALSE],
       enc |-> "utf-8"],
      [doc |-> [header |-> <<RowF[1]>>, lines |-> <<RowA, RowF>>, final |-> TRUE],
       enc |-> "utf-16"],
      [doc |-> [header |-> <<RowF[1]>>, lines |-> <<Junk>>, final |-> FALSE],
       enc |-> "utf-8"] }

Contents == {Encode(Render(s.doc), s.enc) : s \in Sources}

----------------------------------------------------------------------------
(* The object store and the relational store.                              *)

NoMeta == [id |-> Empty, retrieved_utc |-> Empty, sha256 |-> 0, bytes |-> 0]

\* hashlib.sha256(content).hexdigest(), kept only as a function of the content:
\* a position-weighted checksum stands for the digest.
RECURSIVE sha256_bytes(_)
sha256_bytes(content) ==
    IF content = Empty THEN 1
    ELSE (sha256_bytes(SubSeq(content, 1, Len(content) - 1))
          + Len(content) * (content[Len(content)] + 1)) % 65521

\* Object bodies: raw bytes, the metadata sidecar, a serialized table.
RawBody(content) == [kind |-> "raw", bytes |-> content, meta |-> NoMeta, parquet |-> NoParquet]
MetaBody(m) == [kind |-> "meta", bytes |-> Empty, meta |-> m, parquet |-> NoParquet]
ParquetBody(pq) == [kind |-> "parquet", bytes |-> Empty, meta |-> NoMeta, parquet |-> pq]

\* put_object: the key is created, or its body replaced.
put_object(s, key, body) ==
    [k \in DOMAIN s \cup {key} |-> IF k = key THEN body ELSE s[k]]

\* The set S as a sequence in ascending order (list_objects_v2 returns keys
\* in ascending byte order).
RECURSIVE Sorted(_)
Sorted(S) ==
    IF S = {} THEN Empty
    ELSE LET m == CHOOSE x \in S : \A y \in S : ~LexLess(y, x)
         IN  <<m>> \o Sorted(S \ {m})

\* list_objects: every key of the bucket that starts with prefix, all pages.
list_objects(s, prefix) == Sorted({k \in DOMAIN s : StartsWith(k, prefix)})

NoTable == [exists |-> FALSE, columns |-> Empty, rows |-> Empty]

\* to_sql with if_exists="append": the rows are added to those of the table.
to_sql_append(t, target, df) ==
    [t EXCEPT ![target] = [exists |-> TRUE, columns |-> df.columns,
                           rows |-> t[target].rows \o df.rows]]

\* pdf.to_sql(if_exists="replace"): the table is dropped and created anew
\* with the frame's columns and rows.
to_sql_replace(t, target, df) ==
    [t EXCEPT ![target] = [exists |-> TRUE, columns |-> df.columns, rows |-> df.rows]]

\* SELECT COUNT(*)
count_rows(t, target) == Len(t[target].rows)

----------------------------------------------------------------------------
(* Bounds of the model.                                                    *)

MaxTicks == 1    \* seconds the clock advances
MaxIngest == 2   \* Ingest runs
MaxRefine == 2   \* Refine runs
MaxLoad == 2     \* Load runs

\* The clock starts at 2023-12-31T23:59:59Z, so that the stamps of the model
\* roll over the second, minute, hour, day, month and year fields.
StartClock == 1704067200 - 1

----------------------------------------------------------------------------
(* Ingest: scripts/ingest_bronze_to_minio.py main().                       *)

IngIdle ==
    [pc |-> "idle", id |-> Empty, ts |-> Empty, raw_key |-> Empty, meta_key |-> Empty,
     content |-> Empty, outcome |-> "none", runs |-> 0]

\* The run ends, with "ok" or with the exception that ended it; its locals go.
IngEnd(outcome) == [IngIdle EXCEPT !.outcome = outcome, !.runs = ing.runs]

\* Lines 100-122: the descriptor is read, the clock is read once and both keys
\* are named from that one stamp; then download_file returns the bytes the
\* URL serves, or raises.
IngestStart(d) ==
    /\ ing.pc = "idle"
    /\ ing.runs < MaxIngest
    /\ LET ts == utc_timestamp(now)
           bronze_prefix == normalize_prefix(d.bronze_prefix)
           started ==
               [pc |-> "put_raw", id |-> d.id, ts |-> ts,
                raw_key |-> bronze_prefix \o d.id \o SEP \o ts \o <<46>> \o Lower(d.format),
                meta_key |-> bronze_prefix \o d.id \o SEP \o ts \o META_SUFFIX,
                content |-> Empty, outcome |-> "running", runs |-> ing.runs + 1]
       IN  \/ \E content \in Contents : ing' = [started EXCEPT !.content = content]
           \/ ing' = [IngIdle EXCEPT !.outcome = "error: download", !.runs = ing.runs + 1]
    /\ UNCHANGED <<now, bucket, store, schemas, tables, ref, ld, hist, sel, dec, par>>

\* Lines 125-133: ensure_bucket creates the bucket when it is absent, then the
\* raw bytes are put under the raw key; the creation and the put can fail.
IngestPutRaw ==
    /\ ing.pc = "put_raw"
    /\ \/ /\ bucket' = TRUE
          /\ store' = put_object(store, ing.raw_key, RawBody(ing.content))
          /\ ing' = [ing EXCEPT !.pc = "put_meta"]
       \/ /\ ~bucket
          /\ UNCHANGED <<bucket, store>>
          /\ ing' = IngEnd("error: create_bucket")
       \/ /\ bucket' = TRUE
          /\ store' = store
          /\ ing' = IngEnd("error: put raw")
    /\ UNCHANGED <<now, schemas, tables, ref, ld, hist, sel, dec, par>>

\* The sidecar of a run: id, retrieval stamp, digest and length of the content.
MetaOf(run) ==
    [id |-> run.id, retrieved_utc |-> run.ts, sha256 |-> sha256_bytes(run.content),
     bytes |-> Len(run.content)]

\* The last step of Ingest made to take the raw object back when the put of
\* the sidecar raises.
IngestPutMetaRollsBack ==
    /\ ing.pc = "put_meta"
    /\ \/ /\ store' = put_object(store, ing.meta_key, MetaBody(MetaOf(ing)))
          /\ ing' = IngEnd("ok")
          /\ hist' = [hist EXCEPT !.ingests =
                        Append(@, [id |-> ing.id, raw_key |-> ing.raw_key,
                                   meta_key |-> ing.meta_key])]
       \/ /\ store' = [k \in DOMAIN store \ {ing.raw_key} |-> store[k]]
          /\ ing' = IngEnd("error: put meta")
          /\ hist' = hist
    /\ UNCHANGED <<now, bucket, schemas, tables, ref, ld, sel, dec, par>>

\* Lines 135-154: the sidecar is put under the meta key, or the put raises.
IngestPutMeta ==
    /\ ing.pc = "put_meta"
    /\ \/ /\ store' = put_object(store, ing.meta_key, MetaBody(MetaOf(ing)))
          /\ ing' = IngEnd("ok")
          /\ hist' = [hist EXCEPT !.ingests =
                        Append(@, [id |-> ing.id, raw_key |-> ing.raw_key,
                                   meta_key |-> ing.meta_key])]
       \/ /\ store' = store
          /\ ing' = IngEnd("error: put meta")
          /\ hist' = hist
    /\ UNCHANGED <<now, bucket, schemas, tables, ref, ld, sel, dec, par>>

----------------------------------------------------------------------------
(* Refine: scripts/bronze_to_silver.py main().                             *)

RefIdle ==
    [pc |-> "idle", id |-> Empty, prefix |-> Empty, key |-> Empty, df |-> EmptyDF,
     silver_key |-> Empty, outcome |-> "none", runs |-> 0]

\* The run ends; the prefix it listed and the keys it used stay on record.
RefEnd(r, outcome) == [r EXCEPT !.pc = "idle", !.df = EmptyDF, !.outcome = outcome]

\* Refine made to list the silver prefix.
refine_lists_silver(d) == normalize_prefix(d.silver_prefix)

\* Line 174: the prefix Refine lists.
refine_source_prefix(d) == normalize_prefix(d.bronze_prefix)

\* A gate that tests the width of the table, not its height.
refine_zero_cols(df) == Len(df.columns) = 0

\* Line 197: the quality gate of Refine.
refine_zero_rows(df) == Height(df) = 0

\* Lines 185-191: the parser of the dataset, applied to the decoded bytes.
refine_parse(dataset_id, raw_bytes) ==
    IF dataset_id = TOURISM_ID
    THEN parse(decode_bytes_safely(raw_bytes).value)
    ELSE Raise("No parser implemented for dataset_id")

\* Lines 163-179: the bronze prefix is listed and the latest data key picked.
RefineList(d) ==
    /\ ref.pc = "idle"
    /\ ref.runs < MaxRefine
    /\ LET prefix == refine_source_prefix(d)
           start == [RefIdle EXCEPT !.id = d.id, !.prefix = prefix,
                                    !.outcome = "running", !.runs = ref.runs + 1]
           pick  == pick_latest_bronze(list_objects(store, prefix), d.id)
       IN  ref' = IF ~bucket THEN RefEnd(start, "error: NoSuchBucket")
                  ELSE IF ~pick.ok THEN RefEnd(start, pick.error)
                  ELSE [start EXCEPT !.pc = "fetch", !.key = pick.value]
    /\ UNCHANGED <<now, bucket, store, schemas, tables, ing, ld, hist, sel, dec, par>>

\* Lines 182-198: the picked object is fetched, decoded and parsed, and the
\* run ends here when the parser raises or the table has no rows.
RefineFetch ==
    /\ ref.pc = "fetch"
    /\ LET parsed == refine_parse(ref.id, store[ref.key].bytes)
       IN  ref' = IF ~parsed.ok THEN RefEnd(ref, parsed.error)
                  ELSE IF refine_zero_rows(parsed.value) THEN RefEnd(ref, "Parsed 0 rows.")
                  ELSE [ref EXCEPT !.pc = "write", !.df = parsed.value]
    /\ UNCHANGED <<now, bucket, store, schemas, tables, ing, ld, hist, sel, dec, par>>

\* Lines 201-224: the table is serialized and put under a silver key stamped
\* with the clock as read now.
RefineWrite ==
    /\ ref.pc = "write"
    /\ LET d == get_dataset(ref.id)
           ts == utc_timestamp(now)
           silver_key == normalize_prefix(d.silver_prefix) \o ref.id \o SEP \o ts
                         \o PARQUET_SUFFIX
       IN  /\ store' = put_object(store, silver_key, ParquetBody(write_parquet(ref.df)))
           /\ ref' = RefEnd([ref EXCEPT !.silver_key = silver_key], "ok")
    /\ hist' = [hist EXCEPT !.loaded = [t \in Targets |-> FALSE], !.fresh = FALSE]
    /\ UNCHANGED <<now, bucket, schemas, tables, ing, ld, sel, dec, par>>

----------------------------------------------------------------------------
(* Load: scripts/load_silver_to_postgres.py main().                        *)

LdIdle ==
    [pc |-> "idle", id |-> Empty, prefix |-> Empty, key |-> Empty, df |-> EmptyDF,
     count |-> 0, outcome |-> "none", runs |-> 0]

LdEnd(r, outcome) == [r EXCEPT !.pc = "idle", !.df = EmptyDF, !.outcome = outcome]

\* Line 114: the prefix Load lists.
load_source_prefix(d) == normalize_prefix(d.silver_prefix)

\* A gate that tests the width of the table, not its height.
load_zero_cols(df) == Len(df.columns) = 0

\* Line 129: the quality gate of Load.
load_zero_rows(df) == Height(df) = 0

\* Lines 103-120: the silver prefix is listed and the latest parquet key picked.
LoadList(d) ==
    /\ ld.pc = "idle"
    /\ ld.runs < MaxLoad
    /\ LET prefix == load_source_prefix(d)
           start == [LdIdle EXCEPT !.id = d.id, !.prefix = prefix,
                                   !.outcome = "running", !.runs = ld.runs + 1]
           pick  == pick_latest_silver(list_objects(store, prefix), d.id)
       IN  ld' = IF ~bucket THEN LdEnd(start, "error: NoSuchBucket")
                 ELSE IF ~pick.ok THEN LdEnd(start, pick.error)
                 ELSE [start EXCEPT !.pc = "fetch", !.key = pick.value]
    /\ hist' = [hist EXCEPT !.fresh = TRUE]
    /\ UNCHANGED <<now, bucket, store, schemas, tables, ing, ref, sel, dec, par>>

\* Lines 123-130: the picked object is fetched and read back, and the run ends
\* here when it holds no rows.
LoadFetch ==
    /\ ld.pc = "fetch"
    /\ LET df == read_parquet(store[ld.key].parquet)
       IN  ld' = IF load_zero_rows(df) THEN LdEnd(ld, "Silver has 0 rows; refusing to load.")
                 ELSE [ld EXCEPT !.pc = "write", !.df = df]
    /\ UNCHANGED <<now, bucket, store, schemas, tables, ing, ref, hist, sel, dec, par>>

\* Lines 133-159: the schema is created if absent, the table replaced by the
\* frame, and its rows counted.
LoadWrite ==
    /\ ld.pc = "write"
    /\ LET d == get_dataset(ld.id)
           replaced == to_sql_replace(tables, Target(d), ld.df)
       IN  /\ schemas' = schemas \cup {d.staging_schema}
           /\ tables' = replaced
           /\ ld' = LdEnd([ld EXCEPT !.count = count_rows(replaced, Target(d))], "ok")
           /\ hist' = [hist EXCEPT !.loaded[Target(d)] = hist.fresh,
                                    !.nloads = @ + 1]
    /\ UNCHANGED <<now, bucket, store, ing, ref, sel, dec, par>>

----------------------------------------------------------------------------
(* The clock, and the pipeline as a whole.                                 *)

Tick ==
    /\ now < StartClock + MaxTicks
    /\ now' = now + 1
    /\ UNCHANGED <<bucket, store, schemas, tables, ing, ref, ld, hist, sel, dec, par>>

NoStore == [k \in {} |-> RawBody(Empty)]

\* A silver snapshot without rows, as an earlier writer without the gates can
\* have left it: "silver/tourism_guides_directory__20230101T000000Z.parquet".
LegacyKey ==
    normalize_prefix(Tourism.silver_prefix) \o TOURISM_ID \o SEP
    \o utc_timestamp(19358 * 86400) \o PARQUET_SUFFIX

LegacyStore == [k \in {LegacyKey} |-> ParquetBody(write_parquet(EmptyDF))]

Unused == [pc |-> "unused"]

\* hist.ingests: the keys of the Ingest runs that succeeded, in order.
\* hist.fresh: no silver object was written since Load last listed.
\* hist.loaded[t]: table t was loaded by a run during which, and since which,
\* no silver object was written.
\* hist.nloads: the Load runs that succeeded.
InitPipeline ==
    /\ now = StartClock
    /\ \/ bucket = FALSE /\ store = NoStore
       \/ bucket = TRUE /\ store = LegacyStore
    /\ schemas = {}
    /\ tables = [t \in Targets |-> NoTable]
    /\ ing = IngIdle
    /\ ref = RefIdle
    /\ ld = LdIdle
    /\ hist = [ingests |-> Empty, loaded |-> [t \in Targets |-> FALSE],
               fresh |-> FALSE, nloads |-> 0]

Init ==
    /\ InitPipeline
    /\ sel = Unused
    /\ dec = Unused
    /\ par = Unused

Ingest ==
    \/ \E d \in Datasets : IngestStart(d)
    \/ IngestPutRaw
    \/ IngestPutMeta

Refine ==
    \/ \E d \in Datasets : RefineList(d)
    \/ RefineFetch
    \/ RefineWrite

Load ==
    \/ \E d \in Datasets : LoadList(d)
    \/ LoadFetch
    \/ LoadWrite

Next == Tick \/ Ingest \/ Refine \/ Load

Spec == Init /\ [][Next]_vars

----------------------------------------------------------------------------
(* The tiers, and the steps of the three transitions.                      *)

BRONZE == <<98, 114, 111, 110, 122, 101, 47>>   \* "bronze/"
SILVER == <<115, 105, 108, 118, 101, 114, 47>>  \* "silver/"

\* The objects of a tier: its keys with their bodies.
Tier(s, prefix) == [k \in {x \in DOMAIN s : StartsWith(x, prefix)} |-> s[k]]

IngestStep == ing' # ing
RefineStep == ref' # ref
LoadStep == ld' # ld

TourismTable == Target(Tourism)

\* The sources that are a header line and N >= 1 data lines of five
\* non-empty fields, and such a source with the given bytes.
WellFormed(src) ==
    /\ Len(src.doc.lines) >= 1
    /\ \A i \in 1..Len(src.doc.lines) :
          /\ Len(src.doc.lines[i]) = 5
          /\ \A c \in 1..5 : src.doc.lines[i][c] # Empty

IsWellFormedBytes(b) == \E src \in Sources : WellFormed(src) /\ Encode(Render(src.doc), src.enc) = b

SourceOf(b) == CHOOSE src \in Sources : WellFormed(src) /\ Encode(Render(src.doc), src.enc) = b

----------------------------------------------------------------------------
(* C1  Refine never writes a silver object from a table without rows: the  *)
(* step that parses zero rows ends the run with the "Parsed 0 rows" error  *)
(* and leaves the silver tier as it was, and every step of Refine that     *)
(* changes the silver tier writes a table that has rows.                   *)

RefineParsesZeroRows ==
    /\ ref.pc = "fetch"
    /\ LET parsed == parse(decode_bytes_safely(store[ref.key].bytes).value)
       IN  parsed.ok /\ Len(parsed.value.rows) = 0

C1_RefineZeroRowsNoWrite ==
    [][/\ (RefineStep /\ RefineParsesZeroRows)
            => /\ ref'.pc = "idle"
               /\ ref'.outcome = "Parsed 0 rows."
               /\ Tier(store', SILVER) = Tier(store, SILVER)
       /\ (RefineStep /\ Tier(store', SILVER) # Tier(store, SILVER))
            => /\ Len(ref.df.rows) > 0
               /\ ref'.silver_key \in DOMAIN store'
               /\ store'[ref'.silver_key].parquet.nrows > 0]_vars

C1_Witness == ref.pc = "idle" /\ ref.outcome = "Parsed 0 rows."

----------------------------------------------------------------------------
(* C2  Load never touches the relational store when the selected silver    *)
(* object reads back as zero rows: that step ends the run with an error    *)
(* and leaves schemas and tables as they were, and every step of Load that *)
(* changes the schemas or a table loads a frame that has rows.             *)

LoadReadsZeroRows ==
    /\ ld.pc = "fetch"
    /\ store[ld.key].parquet.nrows = 0

C2_LoadZeroRowsNoWrite ==
    [][/\ (LoadStep /\ LoadReadsZeroRows)
            => /\ ld'.pc = "idle"
               /\ ld'.outcome = "Silver has 0 rows; refusing to load."
               /\ schemas' = schemas
               /\ tables' = tables
       /\ (schemas' # schemas \/ tables' # tables)
            => /\ LoadStep
               /\ Len(ld.df.rows) > 0
               /\ Len(tables'[TourismTable].rows) > 0]_vars

C2_Witness ==
    /\ ld.pc = "idle"
    /\ ld.outcome = "Silver has 0 rows; refusing to load."
    /\ schemas = {}
    /\ ~tables[TourismTable].exists

----------------------------------------------------------------------------
(* C4  Any two Ingest runs of a dataset that succeeded one after the other *)
(* wrote two different raw keys, and the Version Selector over the keys    *)
(* the two runs wrote returns the raw key of the later run.                *)

C4_SequentialIngestsDistinct ==
    \A i, j \in 1..Len(hist.ingests) :
        (i < j /\ hist.ingests[i].id = hist.ingests[j].id)
            => LET a == hist.ingests[i]
                   b == hist.ingests[j]
                   pick == pick_latest_by_lex(
                               <<a.raw_key, a.meta_key, b.raw_key, b.meta_key>>,
                               a.id \o SEP, <<META_SUFFIX>>)
               IN  /\ a.raw_key # b.raw_key
                   /\ pick.ok
                   /\ pick.value = b.raw_key

----------------------------------------------------------------------------
(* C5  The bronze tier is append-only: no step removes a bronze key or     *)
(* changes the body stored under it.                                       *)

C5_BronzeAppendOnly ==
    [][\A k \in DOMAIN store :
          StartsWith(k, BRONZE) => (k \in DOMAIN store' /\ store'[k] = store[k])]_vars

----------------------------------------------------------------------------
(* C6  Frame: a step of Ingest leaves the silver tier and the relational   *)
(* store unchanged; a step of Refine lists a bronze prefix, fetches a      *)
(* bronze key and leaves the bronze tier and the relational store          *)
(* unchanged; a step of Load lists a silver prefix, fetches a silver key   *)
(* and leaves the whole object store unchanged.                            *)

C6_Frame ==
    [][/\ IngestStep
            => /\ Tier(store', SILVER) = Tier(store, SILVER)
               /\ schemas' = schemas /\ tables' = tables
       /\ RefineStep
            => /\ StartsWith(ref'.prefix, BRONZE)
               /\ ref'.key = Empty \/ StartsWith(ref'.key, ref'.prefix)
               /\ Tier(store', BRONZE) = Tier(store, BRONZE)
               /\ schemas' = schemas /\ tables' = tables
       /\ LoadStep
            => /\ StartsWith(ld'.prefix, SILVER)
               /\ ld'.key = Empty \/ StartsWith(ld'.key, ld'.prefix)
               /\ store' = store]_vars

C6_Witness ==
    /\ ing.outcome = "ok" /\ ref.outcome = "ok" /\ ld.outcome = "ok"
    /\ ing.pc = "idle" /\ ref.pc = "idle" /\ ld.pc = "idle"
    /\ Tier(store, BRONZE) # NoStore /\ Tier(store, SILVER) # NoStore
    /\ tables[TourismTable].exists

----------------------------------------------------------------------------
(* C7  End to end: when the bronze object Refine fetches is a header line  *)
(* and N >= 1 well-formed tab-delimited lines, Refine goes on to write a   *)
(* silver object that holds those N rows, a Load that starts next selects  *)
(* that object, and Load leaves the staging table with exactly the rows it *)
(* read and counts them.                                                   *)

C7_EndToEnd ==
    [][/\ (RefineStep /\ ref.pc = "fetch" /\ IsWellFormedBytes(store[ref.key].bytes))
            => /\ ref'.pc = "write"
               /\ ref'.df.rows = SourceOf(store[ref.key].bytes).doc.lines
       /\ (RefineStep /\ ref.pc = "write")
            => /\ ref'.outcome = "ok"
               /\ ref'.silver_key \in DOMAIN store'
               /\ read_parquet(store'[ref'.silver_key].parquet).rows = ref.df.rows
       /\ (LoadStep /\ ld.pc = "idle" /\ ref.pc = "idle" /\ ref.outcome = "ok")
            => ld'.key = ref.silver_key
       /\ (LoadStep /\ ld.pc = "write")
            => /\ ld'.outcome = "ok"
               /\ tables'[TourismTable].rows = ld.df.rows
               /\ ld'.count = Len(ld.df.rows)]_vars

----------------------------------------------------------------------------
\* Row i of the object stored under key, read across its column vectors.
SilverRows(key) ==
    LET pq == store[key].parquet
    IN  [i \in 1..pq.nrows |-> [c \in 1..Len(pq.schema) |-> pq.columns[c][i]]]

(* C8  Load replaces the staging table wholesale: the step that writes     *)
(* leaves in the table exactly the rows of the silver object the run       *)
(* selected, whatever the table held, and when the table was loaded by the *)
(* previous run and no silver object was written since that run listed,    *)
(* the step leaves the table as it was.                                    *)
C8_LoadReplaces ==
    [][/\ (LoadStep /\ ld.pc = "fetch" /\ ld'.pc = "write")
            => ld'.df.rows = SilverRows(ld.key)
       /\ (LoadStep /\ ld.pc = "write")
            => /\ tables'[TourismTable].exists
               /\ tables'[TourismTable].rows = ld.df.rows
               /\ ld'.count = Len(ld.df.rows)
               /\ hist.loaded[TourismTable] => tables' = tables]_vars

C8_Witness ==
    /\ ld.pc = "idle" /\ ld.outcome = "ok"
    /\ hist.nloads = 2
    /\ hist.loaded[TourismTable]
    /\ ref.runs = 2 /\ ref.outcome = "ok"
    /\ Len(tables[TourismTable].rows) = 2

----------------------------------------------------------------------------
(* The Version Selector on its own: every list of at most MaxKeys keys of  *)
(* SelKeys, with every substring of SelSubstrings and every suffix list of *)
(* SelExcludes.                                                            *)

MaxKeys == 3

\* Keys "p/<id>__<n>.<ext>" and near misses of them: ids "a" and "ba", one or
\* two underscores, extensions ".x" and ".meta.txt".
SelIds == { <<97>>, <<98, 97>> }
SelKeys ==
    { <<112, 47>> \o id \o sep \o n \o ext :
        id \in SelIds, sep \in {SEP, <<95>>}, n \in { <<49>>, <<50>> },
        ext \in { <<46, 120>>, META_SUFFIX } }
SelSubstrings == { id \o SEP : id \in SelIds } \cup { <<95, 50>>, <<122>> }
SelExcludes == { Empty, <<META_SUFFIX>>, << <<46, 120>>, META_SUFFIX >> }

RECURSIVE SeqsUpTo(_, _)
SeqsUpTo(S, n) ==
    IF n = 0 THEN {Empty}
    ELSE LET shorter == SeqsUpTo(S, n - 1)
         IN  shorter \cup {Append(q, x) : q \in shorter, x \in S}

NoResult == Raise("not called")

InitSel ==
    /\ InitPipeline /\ ~bucket
    /\ dec = Unused
    /\ par = Unused
    /\ \E keys \in SeqsUpTo(SelKeys, MaxKeys), sub \in SelSubstrings,
          excl \in SelExcludes, id \in SelIds :
          sel = [pc |-> "in", keys |-> keys, must_contain |-> sub,
                 exclude_suffixes |-> excl, dataset_id |-> id,
                 out |-> NoResult, bronze |-> NoResult]

SelPick ==
    /\ sel.pc = "in"
    /\ sel' = [sel EXCEPT
                 !.pc = "out",
                 !.out = pick_latest_by_lex(sel.keys, sel.must_contain,
                                            sel.exclude_suffixes),
                 !.bronze = pick_latest_bronze(sel.keys, sel.dataset_id)]
    /\ UNCHANGED <<pipeVars, dec, par>>

SpecSel == InitSel /\ [][SelPick]_vars

\* The keys of the list that contain sub and end with no suffix of excl.
Qualifying(keys, sub, excl) ==
    { keys[i] : i \in { j \in 1..Len(keys) :
        /\ Contains(keys[j], sub)
        /\ \A e \in 1..Len(excl) : ~EndsWith(keys[j], excl[e]) } }

\* r is the answer for the qualifying set Q: a failure when Q is empty, and
\* otherwise the key of Q that no key of Q exceeds.
IsLatest(r, Q) ==
    /\ r.ok <=> Q # {}
    /\ r.ok => (r.value \in Q /\ \A q \in Q : ~LexLess(r.value, q))

(* C3  The Version Selector returns the lexicographically greatest key     *)
(* among those that contain the substring and end with no excluded suffix, *)
(* fails with "No matching objects found for latest pick." exactly when    *)
(* there is none, and the bronze selector of Refine answers as the         *)
(* selector does for the substring id + "__" and the suffix ".meta.txt".   *)
C3_SelectorPicksGreatest ==
    sel.pc = "out" =>
        /\ IsLatest(sel.out, Qualifying(sel.keys, sel.must_contain, sel.exclude_suffixes))
        /\ ~sel.out.ok => sel.out.error = "No matching objects found for latest pick."
        /\ IsLatest(sel.bronze,
                    Qualifying(sel.keys, sel.dataset_id \o SEP, <<META_SUFFIX>>))
        /\ LET same == pick_latest_by_lex(sel.keys, sel.dataset_id \o SEP, <<META_SUFFIX>>)
           IN  sel.bronze.ok = same.ok /\ sel.bronze.value = same.value

\* Two different keys qualify, a third is excluded, and the greatest is not
\* the last of the list.
C3_Witness ==
    /\ sel.pc = "out" /\ sel.out.ok /\ sel.bronze.ok
    /\ Cardinality(Qualifying(sel.keys, sel.must_contain, sel.exclude_suffixes)) = 2
    /\ sel.out.value # sel.keys[Len(sel.keys)]
    /\ \E i \in 1..Len(sel.keys) : EndsWith(sel.keys[i], META_SUFFIX)
    /\ sel.exclude_suffixes # Empty

----------------------------------------------------------------------------
(* The Encoding Normalizer on its own: every byte string of at most        *)
(* MaxDecLen bytes of DecBytes.                                            *)

MaxDecLen == 3

\* NUL, "A", the bytes of both byte-order marks, a high and a low surrogate
\* half, the UTF-8 mark and the two bytes of U+00E9 in UTF-8.
DecBytes == {0, 65, 255, 254, 216, 220, 239, 187, 191, 195, 169}

InitDec ==
    /\ InitPipeline /\ ~bucket
    /\ sel = Unused
    /\ par = Unused
    /\ \E b \in SeqsUpTo(DecBytes, MaxDecLen) :
          dec = [pc |-> "in", b |-> b, out |-> NoResult]

DecApply ==
    /\ dec.pc = "in"
    /\ dec' = [dec EXCEPT !.pc = "out", !.out = decode_bytes_safely(dec.b)]
    /\ UNCHANGED <<pipeVars, sel, par>>

SpecDec == InitDec /\ [][DecApply]_vars

IsText(t) == \A i \in 1..Len(t) : t[i] \in 0..1114111 /\ ~(t[i] \in 55296..57343)

(* C9  The Encoding Normalizer returns a string for every byte input and   *)
(* never raises: the result is that of UTF-16 when it decodes, else of     *)
(* UTF-16LE when it decodes, else of UTF-8 without its mark when it        *)
(* decodes, else of Latin-1, which decodes every input.                    *)
C9_DecodeFirstSuccess ==
    dec.pc = "out" =>
        LET u16   == DecodeUtf16(dec.b)
            u16le == DecodeUtf16le(dec.b)
            u8    == DecodeUtf8Sig(dec.b)
            l1    == DecodeLatin1(dec.b)
        IN  /\ dec.out.ok
            /\ IsText(dec.out.value)
            /\ l1.ok /\ Len(l1.value) = Len(dec.b)
            /\ dec.out.value = IF u16.ok THEN u16.value
                               ELSE IF u16le.ok THEN u16le.value
                               ELSE IF u8.ok THEN u8.value
                               ELSE l1.value

\* Both UTF-16 decoders fail on the odd length and UTF-8 decodes U+00E9
\* after "A".
C9_Witness ==
    /\ dec.pc = "out"
    /\ dec.b = <<65, 195, 169>>
    /\ ~DecodeUtf16(dec.b).ok /\ ~DecodeUtf16le(dec.b).ok
    /\ dec.out.value = <<65, 233>>

----------------------------------------------------------------------------
(* The Tabular Extractor on its own: a header line and at most             *)
(* MaxDataLines data lines, each written from a line shape of LineShapes.  *)

MaxDataLines == 2

\* The field values of a line, before any padding.
FieldsOf(base) ==
    IF base = 1
    THEN << <<68, 111, 101>>, <<65, 32, 66>>, <<70, 101, 115>>, <<71>>, <<70, 82>>,
            <<120>> >>                                \* Doe, A B, Fes, G, FR, x
    ELSE << <<75>>, <<76>>, <<77>>, <<78>>, <<79>>, <<80>> >>  \* K L M N O P

\* A line shape: how many fields, which values, the separator between them
\* (a tab or two spaces) and what surrounds each field (nothing, a space on
\* both sides, or a byte-order mark before the line).
LineShapes ==
    [n : {3, 4, 5, 6}, base : {1, 2}, sep : { <<9>>, <<32, 32>> },
     pad : {"none", "spaces", "bom"}]

ShapeFields(shape) == SubSeq(FieldsOf(shape.base), 1, shape.n)

LineText(shape) ==
    LET f == ShapeFields(shape)
        padded == [i \in 1..Len(f) |->
                     IF shape.pad = "spaces" THEN <<32>> \o f[i] \o <<32>> ELSE f[i]]
    IN  (IF shape.pad = "bom" THEN BOM ELSE Empty) \o Join(padded, shape.sep)

RECURSIVE TextOf(_)
TextOf(shapes) ==
    IF shapes = Empty THEN Empty
    ELSE LineText(Head(shapes)) \o <<10>> \o TextOf(Tail(shapes))

InitPar ==
    /\ InitPipeline /\ ~bucket
    /\ sel = Unused
    /\ dec = Unused
    /\ \E shapes \in SeqsUpTo(LineShapes, MaxDataLines) :
          par = [pc |-> "in", shapes |-> shapes,
                 text |-> <<104, 10>> \o TextOf(shapes), out |-> NoResult]

ParApply ==
    /\ par.pc = "in"
    /\ par' = [par EXCEPT !.pc = "out", !.out = parse(par.text)]
    /\ UNCHANGED <<pipeVars, sel, dec>>

SpecPar == InitPar /\ [][ParApply]_vars

\* A well-formed data line: five fields, tab-delimited, free of byte-order
\* mark artifacts (the fields of the model are never empty).
WellFormedShape(shape) == shape.n = 5 /\ shape.sep = <<9>> /\ shape.pad # "bom"

AllWellFormed == \A i \in 1..Len(par.shapes) : WellFormedShape(par.shapes[i])

\* parse returned one row per data line, in order, with the five field values.
RoundTrip ==
    /\ par.out.ok
    /\ Len(par.out.value.rows) = Len(par.shapes)
    /\ \A i \in 1..Len(par.shapes) :
          \A c \in 1..5 : par.out.value.rows[i][c] = FieldsOf(par.shapes[i].base)[c]

(* C10  Tabular Extractor round-trip, as stated: for a header line and N   *)
(* well-formed tab-delimited 5-column data lines, N >= 0, parse returns    *)
(* exactly N rows, in input order, with the five trimmed fields of each    *)
(* line.                                                                   *)
C10_RoundTripAnyN == (par.pc = "out" /\ AllWellFormed) => RoundTrip

(* C10, amended  The same for N >= 1: for a header line alone parse raises *)
(* "Not enough lines to parse file." and returns no table.                 *)
C10_RoundTrip ==
    /\ (par.pc = "out" /\ AllWellFormed /\ Len(par.shapes) >= 1) => RoundTrip
    /\ (par.pc = "out" /\ Len(par.shapes) = 0)
          => (~par.out.ok /\ par.out.error = "Not enough lines to parse file.")

\* Two well-formed lines with different values, one of them padded.
C10_Witness ==
    /\ par.pc = "out" /\ AllWellFormed /\ Len(par.shapes) = 2
    /\ par.shapes[1].base # par.shapes[2].base
    /\ par.shapes[1].pad = "spaces"
    /\ Len(par.out.value.rows) = 2


----------------------------------------------------------------------------
(* The cleanup pass on its own: every string of at most MaxBomLen          *)
(* characters of BomChars.                                                 *)

MaxBomLen == 4

\* "ÿ", "þ", U+FEFF, a space and "a".
BomChars == {255, 254, 65279, 32, 97}

InitBom ==
    /\ InitPipeline /\ ~bucket
    /\ sel = Unused
    /\ par = Unused
    /\ \E s \in SeqsUpTo(BomChars, MaxBomLen) :
          dec = [pc |-> "bom_in", s |-> s, out |-> Empty]

BomApply ==
    /\ dec.pc = "bom_in"
    /\ dec' = [dec EXCEPT !.pc = "bom_out", !.out = clean_bom(dec.s)]
    /\ UNCHANGED <<pipeVars, sel, par>>

SpecBom == InitBom /\ [][BomApply]_vars

(* C11  The text produced by the cleanup pass contains neither U+FEFF nor  *)
(* the glyph pair "ÿþ", and neither starts nor ends with whitespace.       *)
C11_CleanBomNoArtifacts ==
    dec.pc = "bom_out" =>
        /\ ~Contains(dec.out, BOM)
        /\ ~Contains(dec.out, BOM_GLYPHS)
        /\ dec.out # Empty => (~IsSpace(dec.out[1]) /\ ~IsSpace(dec.out[Len(dec.out)]))


----------------------------------------------------------------------------
(* The Tabular Extractor on one data line: the fragments "a", "b", ...     *)
(* joined by at most MaxLineSeps separators of LineSeps.                   *)

MaxLineSeps == 3

\* A tab, two spaces, two tabs, a space and a tab, one space.
LineSeps == { <<9>>, <<32, 32>>, <<9, 9>>, <<32, 9>>, <<32>> }

RECURSIVE LineOf(_, _)
LineOf(seps, n) ==
    IF seps = Empty THEN <<96 + n>>
    ELSE <<96 + n>> \o Head(seps) \o LineOf(Tail(seps), n + 1)

InitLine ==
    /\ InitPipeline /\ ~bucket
    /\ sel = Unused
    /\ dec = Unused
    /\ \E seps \in SeqsUpTo(LineSeps, MaxLineSeps) :
          par = [pc |-> "line_in", seps |-> seps, line |-> LineOf(seps, 1),
                 out |-> NoResult]

LineApply ==
    /\ par.pc = "line_in"
    /\ par' = [par EXCEPT !.pc = "line_out",
                          !.out = parse(<<104, 10>> \o par.line \o <<10>>)]
    /\ UNCHANGED <<pipeVars, sel, dec>>

SpecLine == InitLine /\ [][LineApply]_vars

\* The position where the run of space characters that ends at i starts.
SpaceCharRunStart(s, i) ==
    CHOOSE j \in 1..i :
        /\ \A k \in j..i : s[k] = 32
        /\ (j = 1 \/ s[j - 1] # 32)

\* The fragments of s between runs of two or more space characters.
SplitOnSpaceCharRuns(s) ==
    LET ends == {i \in 1..Len(s) :
                   /\ s[i] = 32
                   /\ (i = Len(s) \/ s[i + 1] # 32)
                   /\ i - SpaceCharRunStart(s, i) >= 1}
    IN  Fragments(s, ends, [i \in ends |-> SpaceCharRunStart(s, i)])

(* C12  A data line whose tab split gives fewer than 4 non-empty trimmed   *)
(* fragments is split again on runs of two or more space characters only,  *)
(* and it produces a row if and only if that split gives at least 4        *)
(* non-empty fragments; otherwise it is skipped and parse raises nothing.  *)
C12_FallbackSplitsOnSpacesOnly ==
    (/\ par.pc = "line_out"
     /\ Len(StrippedNonEmpty(Split(clean_bom(par.line), 9))) < 4)
    => /\ par.out.ok
       /\ Height(par.out.value) =
            IF Len(StrippedNonEmpty(SplitOnSpaceCharRuns(clean_bom(par.line)))) >= 4
            THEN 1 ELSE 0


----------------------------------------------------------------------------
(* Refine racing Ingest, in the pipeline (Spec).                           *)

\* The data keys of dataset id in the bronze tier of s.
BronzeDataKeys(s, id) ==
    {k \in DOMAIN s : StartsWith(k, BRONZE \o id \o SEP) /\ ~EndsWith(k, META_SUFFIX)}

\* A data key of the dataset later than the one Refine holds.
NewerBronzeKey == \E k \in BronzeDataKeys(store, ref.id) : LexLess(ref.key, k)

----------------------------------------------------------------------------
(* The sidecars of the bronze tier, in the pipeline (Spec).                *)

\* The key with what follows its last "." replaced by "meta.txt".
Sidecar(k) ==
    LET dot == CHOOSE i \in 1..Len(k) : k[i] = 46 /\ \A j \in (i + 1)..Len(k) : k[j] # 46
    IN  SubSeq(k, 1, dot - 1) \o META_SUFFIX

\* The bronze data keys of s that have no sidecar in s.
Unpaired(s) ==
    {k \in DOMAIN s : /\ StartsWith(k, BRONZE)
                      /\ ~EndsWith(k, META_SUFFIX)
                      /\ Sidecar(k) \notin DOMAIN s}

(* C14, as stated  When an Ingest run ends, however it ends, every bronze  *)
(* data key of the store has its sidecar, and a run whose download fails   *)
(* writes no object.                                                       *)
C14_EveryDataKeyHasSidecar ==
    [][(IngestStep /\ ing'.pc = "idle")
          => /\ Unpaired(store') = {}
             /\ ing'.outcome = "error: download" => store' = store]_vars

(* C14, amended  A run whose download, bucket creation or raw put fails    *)
(* writes no object; a run that succeeds leaves its data key and, under    *)
(* the same stamp, its sidecar; a run whose sidecar put fails leaves the   *)
(* data key it has put, without sidecar.  So a data key lacks its sidecar  *)
(* only between the two puts of the run that wrote it, or after that run's *)
(* sidecar put failed.                                                     *)
C14_SidecarUnlessMetaPutFails ==
    [][IngestStep
          => /\ ing'.outcome \in {"error: download", "error: create_bucket", "error: put raw"}
                   => store' = store
             /\ ing'.outcome = "ok"
                   => /\ {ing.raw_key, ing.meta_key} \subseteq DOMAIN store'
                      /\ Sidecar(ing.raw_key) = ing.meta_key
                      /\ Unpaired(store') = Unpaired(store) \ {ing.raw_key}
             /\ ing'.outcome = "error: put meta"
                   => /\ store' = store
                      /\ ing.raw_key \in DOMAIN store
             /\ ing'.pc = "put_meta"
                   => Unpaired(store') \subseteq Unpaired(store) \cup {ing'.raw_key}
             /\ ing'.pc = "put_raw" => store' = store]_vars

\* One run succeeded and left a pair; a later run put its data key and
\* failed at the sidecar, and that data key is in the store without sidecar.
C14_Witness ==
    /\ ing.pc = "idle" /\ ing.outcome = "error: put meta"
    /\ Len(hist.ingests) = 1
    /\ Sidecar(hist.ingests[1].raw_key) \in DOMAIN store
    /\ Cardinality(Unpaired(store)) = 1


----------------------------------------------------------------------------
(* The selectors of Refine and Load over a prefix that holds the objects   *)
(* of two datasets, one with an id that ends with the id of the other:     *)
(* every list of at most MaxOwnKeys keys of OwnKeys, in ascending order as *)
(* a listing returns them.                                                 *)

MaxOwnKeys == 2

\* "p/<id>__<n><ext>" for the ids "a" and "ba", the stamps "1" and "2" and
\* the extensions ".x", ".parquet" and ".meta.txt".
OwnPrefix == <<112, 47>>
OwnKeys ==
    { OwnPrefix \o id \o SEP \o n \o ext :
        id \in SelIds, n \in { <<49>>, <<50>> },
        ext \in { <<46, 120>>, PARQUET_SUFFIX, META_SUFFIX } }

InitOwn ==
    /\ InitPipeline /\ ~bucket
    /\ dec = Unused
    /\ par = Unused
    /\ \E K \in SUBSET OwnKeys, id \in SelIds :
          /\ Cardinality(K) <= MaxOwnKeys
          /\ sel = [pc |-> "own_in", keys |-> Sorted(K), dataset_id |-> id,
                    bronze |-> NoResult, silver |-> NoResult]

OwnPick ==
    /\ sel.pc = "own_in"
    /\ sel' = [sel EXCEPT
                 !.pc = "own_out",
                 !.bronze = pick_latest_bronze(sel.keys, sel.dataset_id),
                 !.silver = pick_latest_silver(sel.keys, sel.dataset_id)]
    /\ UNCHANGED <<pipeVars, dec, par>>

SpecOwn == InitOwn /\ [][OwnPick]_vars

\* k is a key of dataset id under the prefix: "p/<id>__...".
IsKeyOf(k, id) == StartsWith(k, OwnPrefix \o id \o SEP)

(* C15  The key that the selector of Refine or of Load returns for dataset *)
(* id D is a key of D, "<prefix>D__<stamp>.<ext>", whatever keys of other  *)
(* datasets the listing holds.                                             *)
C15_SelectsOwnDataset ==
    sel.pc = "own_out" =>
        /\ sel.bronze.ok => IsKeyOf(sel.bronze.value, sel.dataset_id)
        /\ sel.silver.ok => IsKeyOf(sel.silver.value, sel.dataset_id)

====
